---- MODULE Spec2Model ----
(***************************************************************************)
(* Settings schema composition of jupyterlab-lsp (SettingsUIManager):      *)
(* the fetch hook with its cached canonical schema, populate (per-server   *)
(* transformation, validation, rollback), the sessionsChanged handler, the *)
(* compose hook with its conflict dialog and _filterOutDefaults; and the   *)
(* resolution of a CompletionItem.                                         *)
(***************************************************************************)
EXTENDS Integers, Sequences, FiniteSets, TLC

-----------------------------------------------------------------------------
(* Bounds of the model *)

\* servers in the catalog at one time
MaxSpecs == 2
\* deep copies made into `canonical` (populate runs) over one behaviour
MaxCompositions == 2
\* reloads requested and not yet completed
MaxReloads == 2
\* callers of CompletionItem.resolve() at one time
MaxCalls == 3

-----------------------------------------------------------------------------
(* JSON values: an object is a function from its keys to its values; absent
   keys are outside the DOMAIN.  An optional reference (T | null) is the
   empty sequence or a one-element sequence. *)

EmptyObject == [k \in {} |-> k]
None == <<>>
Some(v) == <<v>>

Has(obj, k) == k \in DOMAIN obj
\* delete obj[k]
Delete(obj, k) == [x \in DOMAIN obj \ {k} |-> obj[x]]
\* obj[k] = v
Assign(obj, k, v) == (k :> v) @@ obj
\* obj.k, or undefined
Opt(obj, k) == IF Has(obj, k) THEN Some(obj[k]) ELSE None

\* A `$ref` string is kept as its first 14 characters and the rest.
Ref(prefix, rest) == [prefix |-> prefix, rest |-> rest]
startsWith(ref, prefix) == ref.prefix = prefix
substring14(ref) == ref.rest

\* JSONExt.deepCopy: an equal value held by a new object
deepCopy(value, newRef) == [ref |-> newRef, value |-> value]

-----------------------------------------------------------------------------
(* The catalog's server specs, as the language server manager supplies them *)

\* the text a translation call returns: the message id and its argument
trans(msgid, arg) == [msgid |-> msgid, arg |-> arg]

Pyls ==
  [ key |-> "pyls", display_name |-> "Python LS",
    config_schema |->
      [ description |-> trans("Python LS settings", ""),
        title |-> trans("pylsp", ""),
        properties |->
          [ maxLineLength |-> [type |-> "number", default |-> "80"],
            formatter |-> ("$ref" :> Ref("#/definitions/", "fmt")) ],
        definitions |-> [fmt |-> [type |-> "string", default |-> "black"]] ] ]

\* a `$ref` to a definition the fragment does not have
Rls ==
  [ key |-> "rls", display_name |-> "R LS",
    config_schema |->
      [ properties |->
          [ maxLineLength |-> [type |-> "number"],
            lint |-> ("$ref" :> Ref("#/definitions/", "missing")) ],
        definitions |-> [fmt |-> [type |-> "string"]] ] ]

\* a `$ref` that is not local
Tsls ==
  [ key |-> "tsls", display_name |-> "TS LS",
    config_schema |->
      [ properties |->
          [ style |-> ("$ref" :> Ref("http://json-sch", "ema.org/x")) @@ [default |-> "std"] ],
        definitions |-> EmptyObject ] ]

EmptyKey ==
  [ key |-> "", display_name |-> "Anonymous",
    config_schema |-> [ properties |-> [maxLineLength |-> [type |-> "number", default |-> "79"]],
                        definitions |-> EmptyObject ] ]

NoConfig == [ key |-> "bash", display_name |-> "Bash LS" ]

NoProperties ==
  [ key |-> "yaml", display_name |-> "YAML LS",
    config_schema |-> [ definitions |-> EmptyObject ] ]

\* Object.entries order of the property names used above (insertion order)
PropertyOrder == <<"maxLineLength", "formatter", "lint", "style">>

Keys(catalog) == {catalog[i].key : i \in DOMAIN catalog}

\* the order in which the manager inserts the specs into its Map
SpecOrder == << Pyls, Rls, Tsls >>
AllSpecsOrder == << Pyls, EmptyKey, Rls, NoConfig, Tsls, NoProperties >>

RECURSIVE Subsequences(_, _)
\* the subsequences of `order` of at most n elements
Subsequences(order, n) ==
  IF order = <<>> \/ n = 0 THEN {<<>>}
  ELSE Subsequences(Tail(order), n) \cup
       {<<Head(order)>> \o c : c \in Subsequences(Tail(order), n - 1)}

\* the catalogs the manager may hold: Map<serverKey, spec> in insertion order
Catalogs == Subsequences(SpecOrder, MaxSpecs)
AllCatalogs == Subsequences(AllSpecsOrder, MaxSpecs)

-----------------------------------------------------------------------------
(* The plugin schema the registry hands to the fetch hook *)

LanguageServerDefinition ==
  [ description |-> "Language-server specific configuration",
    title |-> "Language Server",
    properties |-> [ priority |-> [type |-> "number", default |-> "50"] ] ]

\* schema.properties.language_servers, with or without `properties`/`default`
LanguageServers(hasProperties, hasDefault) ==
  (IF hasProperties
     THEN "properties" :> [ priority |-> [type |-> "number", default |-> "50"],
                            argv |-> [type |-> "array"] ]
     ELSE EmptyObject)
  @@ (IF hasDefault THEN "default" :> [pyright |-> EmptyObject] ELSE EmptyObject)
  @@ [type |-> "object", title |-> "Language Server"]

PluginSchema(hasProperties, hasDefault) ==
  [ definitions |-> ("language-server" :> LanguageServerDefinition),
    properties |->
      [ language_servers |-> LanguageServers(hasProperties, hasDefault),
        logAllCommunication |-> [type |-> "boolean", default |-> "false"] ] ]

PluginSchemas == {PluginSchema(p, d) : p, d \in BOOLEAN}

-----------------------------------------------------------------------------
(* State *)

VARIABLES
  specs,              \* languageServerManager.specs: the catalog, in Map order
  sessions,           \* keys of languageServerManager.sessions
  canonical,          \* the cached composed schema (None: null or undefined)
  original,           \* the plugin schema captured by the first fetch
  _defaults,          \* SettingsUIManager._defaults
  _validationErrors,  \* SettingsUIManager._validationErrors
  validationAttempt,  \* module-level counter of validations
  compositions,       \* deep copies made into `canonical` so far (object identities)
  reloading,          \* settingRegistry.reload calls requested and not completed
  supplied,           \* history: the catalog as the manager last supplied it
  firstSeen,          \* history: the plugin schema the first fetch was given
  lastFetch,          \* history: what the last call of the fetch hook did
  lastPopulate,       \* history: what the last run of populate did
  epoch,              \* history: the fetches since the last sessionsChanged signal
  validatorIds,       \* history: the attempt numbers given to validateData, in call order
  data,               \* plugin.data of the plugin the compose hook is given
  dialog,             \* the promise of the conflict dialog: "none", "open", "logged"
  lastCollapse,       \* history: what the last _collapseServerSettingsDotted did
  lastPrune,          \* history: what the last _filterOutDefaults did
  connection,         \* CompletionItem.options.connection and its resolveProvider
  showDocumentation,  \* CompletionItem.options.showDocumentation
  _documentation,     \* CompletionItem._documentation ("" when undefined)
  _requested_resolution,  \* CompletionItem._requested_resolution
  _resolved,          \* CompletionItem._resolved
  request,            \* the completionItem/resolve request: "none", "outstanding" or its outcome
  requests,           \* history: completionItem/resolve requests sent so far
  calls               \* the position of each call of CompletionItem.resolve()

schemaVars ==
  << specs, sessions, canonical, original, _defaults, _validationErrors,
     validationAttempt, compositions, reloading, supplied, firstSeen,
     lastFetch, lastPopulate, epoch, validatorIds >>

dataVars == << data, dialog, lastCollapse, lastPrune >>

itemVars ==
  << connection, showDocumentation, _documentation, _requested_resolution,
     _resolved, request, requests, calls >>

vars == << schemaVars, dataVars, itemVars >>

-----------------------------------------------------------------------------
(* getDefaults and populate *)

\* what the strict validator may answer: null, or a non-empty list of errors
ValidatorAnswers ==
  { None,
    Some(<< [keyword |-> "$ref", message |-> "can't resolve reference"],
            [keyword |-> "additionalProperties", message |-> "should NOT have additional properties"] >>) }

isJSONProperty(obj) == Has(obj, "type") \/ Has(obj, "$ref")

\* getDefaults that reads the default of typed properties only
getDefaultsTyped(properties) ==
  IF properties = None THEN EmptyObject
  ELSE LET withDefault == {key \in DOMAIN properties[1] :
                             /\ Has(properties[1][key], "type")
                             /\ Has(properties[1][key], "default")}
       IN [key \in withDefault |-> properties[1][key].default]

getDefaults(properties) ==
  IF properties = None THEN EmptyObject
  ELSE LET withDefault == {key \in DOMAIN properties[1] : Has(properties[1][key], "default")}
       IN [key \in withDefault |-> properties[1][key].default]

\* the keys of Object.entries(properties), in order
entries(properties) == SelectSeq(PropertyOrder, LAMBDA key : key \in DOMAIN properties)

\* InlineRef that leaves the `$ref` key beside the fields it copied
InlineRefKeepingRef(st, key) ==
  LET configSchema == st.configSchema
      value == configSchema.properties[key]
  IN IF ~Has(value, "$ref") THEN st
     ELSE IF startsWith(value["$ref"], "#/definitions/")
       THEN IF ~Has(configSchema.definitions, substring14(value["$ref"]))
              THEN [st EXCEPT !.threw = TRUE]
              ELSE [st EXCEPT !.configSchema.properties[key] =
                       configSchema.definitions[substring14(value["$ref"])] @@ value]
       ELSE [st EXCEPT !.warnings = Append(@, "Unsupported $ref")]

\* One turn of the loop over configSchema.properties.  st holds the config
\* schema being rewritten, the warnings logged and whether a TypeError escaped.
InlineRef(st, key) ==
  LET configSchema == st.configSchema
      value == configSchema.properties[key]
  IN IF ~isJSONProperty(value) THEN st
     ELSE IF ~Has(value, "$ref") THEN st
     ELSE IF startsWith(value["$ref"], "#/definitions/")
       THEN LET definitionID == substring14(value["$ref"])
            IN IF ~Has(configSchema, "definitions")
                 \* configSchema.definitions[definitionID] on undefined
                 THEN [st EXCEPT !.threw = TRUE]
               ELSE IF ~Has(configSchema.definitions, definitionID)
                 \* warns, then Object.entries(undefined) throws
                 THEN [st EXCEPT !.warnings = Append(@, "Definition not found"),
                                 !.threw = TRUE]
               ELSE [st EXCEPT !.configSchema.properties[key] =
                        Delete(configSchema.definitions[definitionID] @@ value, "$ref")]
       ELSE [st EXCEPT !.warnings = Append(@, "Unsupported $ref")]

RECURSIVE InlineRefs(_, _)
InlineRefs(st, keys) ==
  IF keys = <<>> \/ st.threw THEN st
  ELSE InlineRefs(InlineRef(st, Head(keys)), Tail(keys))

\* SkipReason without the guard on the empty key
SkipReasonKeyUnchecked(serverSpec) ==
  IF ~Has(serverSpec, "config_schema") THEN "No config schema"
  ELSE IF ~Has(serverSpec.config_schema, "properties")
    THEN "No properites in config schema"
  ELSE ""

\* The three guards at the head of the loop over the specs: the warning of
\* the one that skips the server, or "" when the server is transformed.
SkipReason(serverSpec) ==
  IF serverSpec.key = "" THEN "Empty server key"
  ELSE IF ~Has(serverSpec, "config_schema") THEN "No config schema"
  ELSE IF ~Has(serverSpec.config_schema, "properties")
    THEN "No properites in config schema"
  ELSE ""

\* One turn of the loop over languageServerManager.specs.entries().  st holds
\* the catalog (its objects are rewritten in place), knownServersConfig,
\* defaults, the warnings logged and whether a TypeError escaped.
TransformServer(st, i) ==
  LET serverSpec == st.specs[i]
      serverKey == serverSpec.key
  IN IF SkipReason(serverSpec) # ""
       THEN [st EXCEPT !.warnings = Append(@, SkipReason(serverSpec))]
     ELSE
       LET described ==
             Assign(Assign(serverSpec.config_schema, "description",
                           IF serverKey \notin sessions
                             THEN trans("Settings that would be passed (not detected)",
                                        serverSpec.display_name)
                             ELSE trans("Settings to be passed",
                                        serverSpec.display_name)),
                    "title", trans("Workspace Configuration", ""))
           inlined == InlineRefs([configSchema |-> described,
                                  warnings |-> st.warnings, threw |-> FALSE],
                                 entries(described.properties))
           configSchema == inlined.configSchema
           defaultMap == getDefaults(Some(configSchema.properties))
           baseSchemaCopy ==
             [st.baseServerSchema EXCEPT
                !.properties = Assign(@, "serverSettings", configSchema)]
       IN IF inlined.threw
            THEN [st EXCEPT !.specs[i].config_schema = configSchema,
                            !.warnings = inlined.warnings,
                            !.threw = TRUE]
            ELSE [st EXCEPT !.specs[i].config_schema = configSchema,
                            !.warnings = inlined.warnings,
                            !.knownServersConfig = Assign(@, serverKey, baseSchemaCopy),
                            !.defaults = Assign(@, serverKey,
                                [serverSettings |-> defaultMap] @@ st.sharedDefaults)]

RECURSIVE TransformServers(_, _)
TransformServers(st, i) ==
  IF i > Len(st.specs) \/ st.threw THEN st
  ELSE TransformServers(TransformServer(st, i), i + 1)

\* Rollback restoring the whole of language_servers from the original
RollbackWhole(schema, original_) ==
  IF original_ = None THEN schema
  ELSE [schema EXCEPT !.properties.language_servers =
          original_[1].value.properties.language_servers]

\* The rollback after a failed validation
Rollback(schema, original_) ==
  IF original_ = None THEN schema
  ELSE LET was == original_[1].value.properties.language_servers
           withoutProperties ==
             IF ~Has(was, "properties")
               THEN [schema EXCEPT !.properties.language_servers = Delete(@, "properties")]
               ELSE schema
       IN IF ~Has(was, "default")
            THEN [withoutProperties EXCEPT
                    !.properties.language_servers = Delete(@, "default")]
            ELSE withoutProperties

\* defaults carried over from the previous run of populate
staleDefaults == _defaults

\* const defaults = {} at the head of populate
freshDefaults == EmptyObject

\* a counter that stays where it is
nextAttemptSame(attempt) == attempt

\* validationAttempt += 1
nextAttempt(attempt) == attempt + 1

\* the dummy id of the plugin handed to validateData:
\* `lsp-validation-attempt-${validationAttempt}`, kept as its number
validationId(attempt) == attempt

\* errors reported and not stored
storedErrorsDropped(validationErrors) == _validationErrors

\* stored errors that a successful validation clears
storedErrorsCleared(validationErrors) ==
  IF validationErrors # None THEN validationErrors[1] ELSE <<>>

\* if (validationErrors) { this._validationErrors = validationErrors; }
storedErrors(validationErrors) ==
  IF validationErrors # None THEN validationErrors[1] ELSE _validationErrors

\* populate(plugin, schema) with the closure's `original` and the validator's
\* answer; the result holds every object and field populate leaves behind.
populate(plugin, schema, original_, validationErrors) ==
  LET loop == TransformServers(
                [specs |-> specs,
                 knownServersConfig |-> EmptyObject,
                 defaults |-> freshDefaults,
                 warnings |-> <<>>,
                 threw |-> FALSE,
                 baseServerSchema |-> schema.definitions["language-server"],
                 sharedDefaults |->
                   getDefaults(Opt(schema.properties.language_servers, "properties"))],
                1)
      composed ==
        [schema EXCEPT !.properties.language_servers =
           Assign(Assign(@, "properties", loop.knownServersConfig),
                  "default", loop.defaults)]
  IN IF loop.threw
       THEN [threw |-> TRUE, specs |-> loop.specs, warnings |-> loop.warnings,
             schema |-> schema, composed |-> schema,
             _defaults |-> _defaults, _validationErrors |-> _validationErrors,
             validationAttempt |-> validationAttempt, validated |-> None]
       ELSE [threw |-> FALSE, specs |-> loop.specs, warnings |-> loop.warnings,
             schema |-> IF validationErrors # None
                          THEN Rollback(composed, original_) ELSE composed,
             composed |-> composed,
             _defaults |-> loop.defaults,
             _validationErrors |-> storedErrors(validationErrors),
             validationAttempt |-> nextAttempt(validationAttempt),
             validated |-> Some(validationId(nextAttempt(validationAttempt)))]

-----------------------------------------------------------------------------
(* The hooks of setupSchemaForUI *)

\* the plugin objects the registry passes to the fetch hook
Plugins ==
  { [id |-> "@jupyter-lsp/jupyterlab-lsp:plugin", schema |-> schema,
     raw |-> "{}", version |-> "1"] : schema \in PluginSchemas }

Min(a, b) == IF a < b THEN a ELSE b

\* captureOriginal without its guard
captureOriginalAlways(plugin) == Some(deepCopy(plugin.schema, 0))

\* if (!original) { original = JSONExt.deepCopy(plugin.schema); }
captureOriginal(plugin) ==
  IF original = None THEN Some(deepCopy(plugin.schema, 0)) ELSE original

\* isUnset of a fetch hook that never uses its cache
isUnsetAlways(cached) == TRUE

\* !canonical
isUnset(cached) == cached = None

\* transform(pluginId, {fetch: plugin => ...})
fetch(plugin, validationErrors) ==
  LET original1 == captureOriginal(plugin)
      copy == deepCopy(plugin.schema, compositions + 1)
  \* r: what populate leaves behind, read only when the schema is not cached
  IN \E r \in {populate(plugin, copy.value, original1, validationErrors)} :
  LET returned == IF isUnset(canonical)
                    THEN [copy EXCEPT !.value = r.schema] ELSE canonical[1]
      threw == isUnset(canonical) /\ r.threw
  IN /\ original' = original1
     /\ firstSeen' = (IF firstSeen = None THEN Some(plugin.schema) ELSE firstSeen)
     /\ IF isUnset(canonical)
          THEN /\ compositions < MaxCompositions
               /\ compositions' = compositions + 1
               /\ canonical' = Some(returned)
               /\ specs' = r.specs
               /\ _defaults' = r._defaults
               /\ _validationErrors' = r._validationErrors
               /\ validationAttempt' = r.validationAttempt
               /\ validatorIds' = validatorIds \o r.validated
               /\ lastPopulate' =
                    [ran |-> TRUE, threw |-> r.threw,
                     rejected |-> ~r.threw /\ validationErrors # None,
                     errors |-> IF r.threw THEN None ELSE validationErrors,
                     shared |-> Opt(plugin.schema.properties.language_servers,
                                    "properties"),
                     composed |-> r.composed, warnings |-> r.warnings,
                     before |-> DOMAIN _defaults]
          ELSE UNCHANGED << canonical, compositions, specs, _defaults,
                            _validationErrors, validationAttempt, validatorIds,
                            lastPopulate >>
     /\ lastFetch' =
          [outcome |-> IF threw THEN "threw" ELSE "returned",
           ref |-> IF threw THEN 0 ELSE returned.ref,
           cached |-> canonical # None,
           populated |-> compositions' # compositions,
           validated |-> validationAttempt' # validationAttempt,
           first |-> epoch.fetches = 0]
     /\ epoch' =
          [epoch EXCEPT
             !.fetches = Min(2, @ + 1),
             !.populates = @ + (compositions' - compositions),
             !.returned = IF @ = None /\ ~threw THEN Some(returned.ref) ELSE @]
     /\ UNCHANGED << sessions, supplied >>

\* languageServerManager.sessionsChanged.connect(async () => ...)
sessionsChanged ==
  /\ reloading < MaxReloads
  /\ compositions < MaxCompositions
  /\ canonical' = None
  /\ reloading' = reloading + 1
  /\ UNCHANGED << original, _defaults, _validationErrors, validationAttempt,
                  compositions, validatorIds >>

\* The manager replaces its specs and sessions (or keeps them) before it
\* emits sessionsChanged.
fetchSessions(newSpecs, newSessions) ==
  /\ specs' = newSpecs
  /\ sessions' = newSessions
  /\ supplied' = (IF newSpecs = specs THEN supplied ELSE newSpecs)

\* the servers that may have a session
LiveKeys == {"pyls"}

-----------------------------------------------------------------------------
(* The compose hook and _collapseServerSettingsDotted *)

\* JSON null
Null == [null |-> "null"]

\* !x for a JSON value that is an object or null
Falsy(x) == x = Null

\* The serverSettings objects a user may have written: keys in dotted form,
\* nested objects, or both for the same path.
ServerSettings ==
  { EmptyObject,
    [a |-> [b |-> "2"]],
    [c |-> "3"],
    ("a.b" :> "1"),
    ("a.b" :> "1") @@ [c |-> "3"],
    ("a.b" :> "1") @@ [a |-> [b |-> "2"]] }

\* the entries of plugin.data.user.language_servers
ServerSettingsGroups ==
  { Null, [priority |-> "50"] }
  \cup { [serverSettings |-> settings] : settings \in ServerSettings }
  \cup { [priority |-> "50", serverSettings |-> [c |-> "3"]],
         [priority |-> "50", serverSettings |-> Null] }

\* the keys a user configures
UserKeys == {"pyls", "rls"}

LanguageServerSettings ==
  UNION { [keys -> ServerSettingsGroups] : keys \in SUBSET UserKeys }

\* plugin.data.user: with or without language_servers
UserData ==
  { [logAllCommunication |-> "true"] }
  \cup { [language_servers |-> settings] : settings \in LanguageServerSettings }
  \cup { [logAllCommunication |-> "true", language_servers |-> settings] :
           settings \in LanguageServerSettings }

\* Object.entries order of the server keys
ServerKeyOrder == << "pyls", "rls" >>

\* The values a serverSettings object assigns to the path a.b, in the order
\* of its entries ("a.b" is written before "a"): by the dotted key and by the
\* nested object.
ValuesOfAB(settings) ==
  (IF Has(settings, "a.b") THEN << settings["a.b"] >> ELSE << >>)
  \o (IF Has(settings, "a") /\ Has(settings["a"], "b")
        THEN << settings["a"]["b"] >> ELSE << >>)

\* collapseToDotted of ./utils: the nested object of the settings, the last
\* value written to a path winning, and for every path written with more than
\* one distinct value the values in the order written.
collapseToDotted(settings) ==
  LET ab == ValuesOfAB(settings)
      rest == [key \in DOMAIN settings \ {"a.b", "a"} |-> settings[key]]
  IN [ result |-> IF ab = << >> THEN rest
                  ELSE [a |-> [b |-> ab[Len(ab)]]] @@ rest,
       conflicts |-> IF Len(ab) > 1 /\ ab[1] # ab[2]
                       THEN ("a.b" :> ab) ELSE EmptyObject ]

\* CollapseServer replacing the server's whole group by its collapsed settings
CollapseServerWhole(st, settings, serverKey) ==
  LET serverSettingsGroup == settings[serverKey]
  IN IF Falsy(serverSettingsGroup)
        \/ ~Has(serverSettingsGroup, "serverSettings")
        \/ Falsy(serverSettingsGroup.serverSettings)
       THEN st
       ELSE LET collapsed == collapseToDotted(serverSettingsGroup.serverSettings)
            IN [st EXCEPT
                  !.conflicts = Assign(@, serverKey, collapsed.conflicts),
                  !.result[serverKey] = [serverSettings |-> collapsed.result]]

\* One turn of the loop of _collapseServerSettingsDotted over the entries of
\* `settings`; st holds `conflicts` and `result`.
CollapseServer(st, settings, serverKey) ==
  LET serverSettingsGroup == settings[serverKey]
  IN IF Falsy(serverSettingsGroup)
        \/ ~Has(serverSettingsGroup, "serverSettings")
        \/ Falsy(serverSettingsGroup.serverSettings)
       THEN st
       ELSE LET collapsed == collapseToDotted(serverSettingsGroup.serverSettings)
            IN [st EXCEPT
                  !.conflicts = Assign(@, serverKey, collapsed.conflicts),
                  !.result[serverKey].serverSettings = collapsed.result]

RECURSIVE CollapseServers(_, _, _)
CollapseServers(st, settings, keys) ==
  IF keys = << >> THEN st
  ELSE CollapseServers(CollapseServer(st, settings, Head(keys)), settings, Tail(keys))

\* if (Object.keys(conflicts).length > 0)
showsDialog(conflicts) == DOMAIN conflicts # {}

\* showDialog({body, buttons: [Dialog.okButton()]}): a promise, not awaited
showDialog == "open"

\* a rejection nothing handles
catchNothing(outcome) == outcome

\* .catch(console.warn): a rejection of the dialog's promise is logged and
\* goes no further; a fulfilled promise passes through
catch(outcome) == IF outcome = "rejected" THEN "logged" ELSE outcome

\* _collapseServerSettingsDotted(settings): the result returned, the conflicts
\* gathered and whether showDialog is called
_collapseServerSettingsDotted(settings) ==
  LET st == CollapseServers(
              [conflicts |-> EmptyObject, result |-> settings], settings,
              SelectSeq(ServerKeyOrder, LAMBDA key : key \in DOMAIN settings))
  IN [result |-> st.result, conflicts |-> st.conflicts,
      shown |-> showsDialog(st.conflicts)]

NoData == [user |-> [logAllCommunication |-> "true"], composite |-> None]

NoCollapse ==
  [ran |-> FALSE, threw |-> FALSE, shown |-> FALSE,
   settings |-> EmptyObject, conflicts |-> EmptyObject, result |-> EmptyObject]

\* transform(pluginId, {compose: plugin => ...})
compose ==
  LET user == data.user
      \* JSONExt.deepCopy(user): an equal value
      composite == user
  IN IF ~Has(user, "language_servers")
       \* Object.entries(undefined) in _collapseServerSettingsDotted
       THEN /\ lastCollapse' = [NoCollapse EXCEPT !.ran = TRUE, !.threw = TRUE]
            /\ UNCHANGED << data, dialog >>
       ELSE LET collapsed == _collapseServerSettingsDotted(user.language_servers)
                user1 == [user EXCEPT !.language_servers = collapsed.result]
                composite1 == [composite EXCEPT !.language_servers = collapsed.result]
            IN /\ data' = [user |-> user1, composite |-> Some(composite1)]
               /\ dialog' = (IF collapsed.shown THEN showDialog ELSE dialog)
               /\ lastCollapse' =
                    [ran |-> TRUE, threw |-> FALSE, shown |-> collapsed.shown,
                     settings |-> user.language_servers,
                     conflicts |-> collapsed.conflicts,
                     result |-> collapsed.result]

-----------------------------------------------------------------------------
(* _filterOutDefaults (no caller: its call in the compose hook is commented out) *)

\* JSONExt.deepEqual(first, second), where second may be undefined
deepEqual(first, second) == second # None /\ first = second[1]

\* The loop over the entries of one server's settings group: the keys that
\* equal their default are deleted, under serverSettings one level deeper.
FilterGroup(serverSettingsGroup, serverDefaults) ==
  LET kept == { settingKey \in DOMAIN serverSettingsGroup \ {"serverSettings"} :
                  ~deepEqual(serverSettingsGroup[settingKey],
                             Opt(serverDefaults, settingKey)) }
      settingValue == serverSettingsGroup.serverSettings
      settingDefault == serverDefaults.serverSettings
      keptSub == { subKey \in DOMAIN settingValue :
                     ~deepEqual(settingValue[subKey], Opt(settingDefault, subKey)) }
  IN [settingKey \in kept |-> serverSettingsGroup[settingKey]]
     @@ [serverSettings |-> [subKey \in keptSub |-> settingValue[subKey]]]

\* One turn of the loop of _filterOutDefaults over the entries of `result`
FilterServer(st, serverKey) ==
  LET serverSettingsGroup == st.result[serverKey]
  IN IF ~Has(_defaults, serverKey) THEN st
     ELSE IF Falsy(serverSettingsGroup) \/ ~Has(serverSettingsGroup, "serverSettings")
       THEN st
     ELSE IF Falsy(serverSettingsGroup.serverSettings)
             \/ ~Has(_defaults[serverKey], "serverSettings")
       \* Object.entries(null), or a sub-key read of undefined
       THEN [st EXCEPT !.threw = TRUE]
     ELSE [st EXCEPT !.result[serverKey] =
              FilterGroup(serverSettingsGroup, _defaults[serverKey])]

RECURSIVE FilterServers(_, _)
FilterServers(st, keys) ==
  IF keys = << >> \/ st.threw THEN st
  ELSE FilterServers(FilterServer(st, Head(keys)), Tail(keys))

\* _filterOutDefaults(settings)
_filterOutDefaults(settings) ==
  FilterServers([result |-> settings, threw |-> FALSE],
                SelectSeq(ServerKeyOrder, LAMBDA key : key \in DOMAIN settings))

NoPrune ==
  [ran |-> FALSE, threw |-> FALSE, settings |-> EmptyObject,
   defaults |-> EmptyObject, result |-> EmptyObject]

\* The settings groups a user may have saved for a server of the catalog:
\* shared fields and serverSettings, equal to the defaults or not.
PrunedGroups ==
  { Null,
    [priority |-> "50"],
    [priority |-> "50",
     serverSettings |-> [maxLineLength |-> "80", formatter |-> "yapf"]],
    [priority |-> "60",
     serverSettings |-> [maxLineLength |-> "100", c |-> "3"]],
    [serverSettings |-> Null] }

PrunedSettings ==
  UNION { [keys -> PrunedGroups] : keys \in SUBSET UserKeys }

-----------------------------------------------------------------------------
(* CompletionItem: needsResolution, isResolved and resolve *)

\* connection.serverCapabilities?.completionProvider?.resolveProvider: the
\* read of serverCapabilities throws a TypeError when there is no connection
_supportsResolution ==
  [threw |-> connection = "none", value |-> connection = "supported"]

\* get documentation()
documentation == IF ~showDocumentation THEN "" ELSE _documentation

needsResolution ==
  IF documentation # "" THEN FALSE
  ELSE IF _resolved THEN FALSE
  ELSE IF _requested_resolution THEN FALSE
  ELSE _supportsResolution.value

isResolved == _resolved

\* an item that forgets it has sent its request
alreadyRequestedNever == FALSE

\* if (this._requested_resolution)
alreadyRequested == _requested_resolution

\* an answer that is never taken for null
isNullNever(resolvedCompletionItem) == FALSE

\* if (resolvedCompletionItem === null)
isNull(resolvedCompletionItem) == resolvedCompletionItem = "null"

\* what the server may answer to completionItem/resolve: an item with or
\* without documentation, null, or a failure of the request
ResolveAnswers == {"documented", "undocumented", "null", "failed"}

\* resolve(), from the call to its return or first suspension
resolve(call) ==
  /\ calls[call] \in {"idle", "returned", "rejected"}
  /\ IF _resolved
       THEN /\ calls' = [calls EXCEPT ![call] = "returned"]
            /\ UNCHANGED << _requested_resolution, request, requests >>
     ELSE IF _supportsResolution.threw
       THEN /\ calls' = [calls EXCEPT ![call] = "rejected"]
            /\ UNCHANGED << _requested_resolution, request, requests >>
     ELSE IF ~_supportsResolution.value
       THEN /\ calls' = [calls EXCEPT ![call] = "returned"]
            /\ UNCHANGED << _requested_resolution, request, requests >>
     ELSE IF alreadyRequested
       \* until_ready(() => this._resolved, 100, 50)
       THEN /\ calls' = [calls EXCEPT ![call] = "waiting"]
            /\ UNCHANGED << _requested_resolution, request, requests >>
     ELSE /\ _requested_resolution' = TRUE
          /\ request' = "outstanding"
          /\ requests' = requests + 1
          /\ calls' = [calls EXCEPT ![call] = "awaiting"]
  /\ UNCHANGED << connection, showDocumentation, _documentation, _resolved >>

\* resolve() after its await: the request is answered or fails
resolveResumes(resolvedCompletionItem) ==
  /\ request = "outstanding"
  /\ request' = resolvedCompletionItem
  /\ IF resolvedCompletionItem = "failed"
       THEN /\ calls' = [call \in DOMAIN calls |->
                           IF calls[call] = "awaiting" THEN "rejected" ELSE calls[call]]
            /\ UNCHANGED << _documentation, _resolved >>
     ELSE IF isNull(resolvedCompletionItem)
       THEN /\ calls' = [call \in DOMAIN calls |->
                           IF calls[call] = "awaiting" THEN "returned" ELSE calls[call]]
            /\ UNCHANGED << _documentation, _resolved >>
     ELSE /\ _documentation' =
               (IF resolvedCompletionItem = "documented" THEN "resolved doc" ELSE "")
          /\ _resolved' = TRUE
          /\ calls' = [call \in DOMAIN calls |->
                         IF calls[call] = "awaiting" THEN "returned" ELSE calls[call]]
  /\ UNCHANGED << connection, showDocumentation, _requested_resolution, requests >>

\* until_ready sees the flag set and the waiting call returns the item
untilReadyFulfils(call) ==
  /\ calls[call] = "waiting"
  /\ _resolved
  /\ calls' = [calls EXCEPT ![call] = "returned"]
  /\ UNCHANGED << connection, showDocumentation, _documentation,
                  _requested_resolution, _resolved, request, requests >>

\* until_ready runs out of retries with the flag still unset
untilReadyRejects(call) ==
  /\ calls[call] = "waiting"
  /\ ~_resolved
  /\ calls' = [calls EXCEPT ![call] = "rejected"]
  /\ UNCHANGED << connection, showDocumentation, _documentation,
                  _requested_resolution, _resolved, request, requests >>

-----------------------------------------------------------------------------
(* Specification *)

\* a completion item nobody resolves
NoItem ==
  /\ connection = "none"
  /\ showDocumentation = FALSE
  /\ _documentation = ""
  /\ _requested_resolution = FALSE
  /\ _resolved = FALSE
  /\ request = "none"
  /\ requests = 0
  /\ calls = << >>

NoFetch ==
  [outcome |-> "none", ref |-> 0, cached |-> FALSE, populated |-> FALSE,
   validated |-> FALSE, first |-> FALSE]

NoPopulate ==
  [ran |-> FALSE, threw |-> FALSE, rejected |-> FALSE, errors |-> None,
   shared |-> None,
   composed |-> PluginSchema(FALSE, FALSE), warnings |-> <<>>, before |-> {}]

Init ==
  /\ specs = <<>>
  /\ sessions = {}
  /\ supplied = <<>>
  /\ canonical = None
  /\ original = None
  /\ _defaults = EmptyObject
  /\ _validationErrors = <<>>
  /\ validationAttempt = 0
  /\ compositions = 0
  /\ reloading = 0
  /\ firstSeen = None
  /\ lastFetch = NoFetch
  /\ lastPopulate = NoPopulate
  /\ epoch = [signalled |-> FALSE, fetches |-> 0, populates |-> 0, returned |-> None]
  /\ validatorIds = <<>>
  /\ data = NoData
  /\ dialog = "none"
  /\ lastCollapse = NoCollapse
  /\ lastPrune = NoPrune
  /\ NoItem

\* The inputs of a call that can tell them apart: the plugin's schema is read
\* only while `original` or `canonical` is unset, the validator is called only
\* by populate.
FetchedPlugins ==
  IF original = None \/ canonical = None
    THEN Plugins ELSE {CHOOSE plugin \in Plugins : TRUE}

Answers == IF canonical = None THEN ValidatorAnswers ELSE {None}

\* the registry loads the plugin for a consumer
Load ==
  \E plugin \in FetchedPlugins, validationErrors \in Answers :
    /\ fetch(plugin, validationErrors)
    /\ UNCHANGED reloading
    /\ UNCHANGED dataVars
    /\ UNCHANGED itemVars

\* a reload requested by the sessionsChanged handler reaches the fetch hook
Reload ==
  \E plugin \in FetchedPlugins, validationErrors \in Answers :
    /\ reloading > 0
    /\ fetch(plugin, validationErrors)
    /\ reloading' = reloading - 1
    /\ UNCHANGED dataVars
    /\ UNCHANGED itemVars

\* the manager has fetched the sessions and emits sessionsChanged
SessionsChangedTo(catalogs) ==
  \E newSpecs \in catalogs \cup {specs} :
    \E newSessions \in SUBSET (Keys(newSpecs) \cap LiveKeys) :
      /\ fetchSessions(newSpecs, newSessions)
      /\ sessionsChanged
      /\ epoch' = [signalled |-> TRUE, fetches |-> 0, populates |-> 0, returned |-> None]
      /\ lastFetch' = NoFetch
      /\ lastPopulate' = NoPopulate
      /\ UNCHANGED firstSeen
      /\ UNCHANGED dataVars
      /\ UNCHANGED itemVars

SessionsChanged == SessionsChangedTo(Catalogs)

Next == Load \/ Reload \/ SessionsChanged

Spec == Init /\ [][Next]_vars

-----------------------------------------------------------------------------
(* populate over every kind of server spec: the manager already holds a
   catalog when the hooks are installed, and then only re-emits it. *)

InitPopulate ==
  /\ specs \in AllCatalogs
  /\ sessions \in SUBSET (Keys(specs) \cap LiveKeys)
  /\ supplied = specs
  /\ canonical = None
  /\ original = None
  /\ _defaults = EmptyObject
  /\ _validationErrors = <<>>
  /\ validationAttempt = 0
  /\ compositions = 0
  /\ reloading = 0
  /\ firstSeen = None
  /\ lastFetch = NoFetch
  /\ lastPopulate = NoPopulate
  /\ epoch = [signalled |-> FALSE, fetches |-> 0, populates |-> 0, returned |-> None]
  /\ validatorIds = <<>>
  /\ data = NoData
  /\ dialog = "none"
  /\ lastCollapse = NoCollapse
  /\ lastPrune = NoPrune
  /\ NoItem

SessionsKept == SessionsChangedTo({})

NextPopulate == Load \/ Reload \/ SessionsKept

SpecPopulate == InitPopulate /\ [][NextPopulate]_vars

-----------------------------------------------------------------------------
(* The compose hook over the settings a user may have saved *)

InitCollapse ==
  /\ specs = <<>>
  /\ sessions = {}
  /\ supplied = <<>>
  /\ canonical = None
  /\ original = None
  /\ _defaults = EmptyObject
  /\ _validationErrors = <<>>
  /\ validationAttempt = 0
  /\ compositions = 0
  /\ reloading = 0
  /\ firstSeen = None
  /\ lastFetch = NoFetch
  /\ lastPopulate = NoPopulate
  /\ epoch = [signalled |-> FALSE, fetches |-> 0, populates |-> 0, returned |-> None]
  /\ validatorIds = <<>>
  /\ data \in { [user |-> user, composite |-> None] : user \in UserData }
  /\ dialog = "none"
  /\ lastCollapse = NoCollapse
  /\ lastPrune = NoPrune
  /\ NoItem

\* the registry composes the plugin it has loaded
Compose ==
  /\ compose
  /\ UNCHANGED lastPrune
  /\ UNCHANGED schemaVars
  /\ UNCHANGED itemVars

\* the user presses the dialog's OK button: the promise is fulfilled
Acknowledge ==
  /\ dialog = "open"
  /\ dialog' = catch("none")
  /\ UNCHANGED << data, lastCollapse, lastPrune >>
  /\ UNCHANGED schemaVars
  /\ UNCHANGED itemVars

\* the host fails to display the dialog: the promise is rejected
DialogFails ==
  /\ dialog = "open"
  /\ dialog' = catch("rejected")
  /\ UNCHANGED << data, lastCollapse, lastPrune >>
  /\ UNCHANGED schemaVars
  /\ UNCHANGED itemVars

NextCollapse == Compose \/ Acknowledge \/ DialogFails

SpecCollapse == InitCollapse /\ [][NextCollapse]_vars

-----------------------------------------------------------------------------
(* _filterOutDefaults over the settings a user may have saved, against the
   defaults a composition stored *)

InitPrune ==
  /\ specs \in {<<>>, <<Pyls>>}
  /\ sessions \in SUBSET (Keys(specs) \cap LiveKeys)
  /\ supplied = specs
  /\ canonical = None
  /\ original = None
  /\ _defaults = EmptyObject
  /\ _validationErrors = <<>>
  /\ validationAttempt = 0
  /\ compositions = 0
  /\ reloading = 0
  /\ firstSeen = None
  /\ lastFetch = NoFetch
  /\ lastPopulate = NoPopulate
  /\ epoch = [signalled |-> FALSE, fetches |-> 0, populates |-> 0, returned |-> None]
  /\ validatorIds = <<>>
  /\ data \in { [user |-> [language_servers |-> settings], composite |-> None] :
                   settings \in PrunedSettings }
  /\ dialog = "none"
  /\ lastCollapse = NoCollapse
  /\ lastPrune = NoPrune
  /\ NoItem

\* _filterOutDefaults applied to the user's language_servers
Prune ==
  /\ LET settings == data.user.language_servers
         filtered == _filterOutDefaults(settings)
     IN lastPrune' =
          [ran |-> TRUE, threw |-> filtered.threw, settings |-> settings,
           defaults |-> _defaults,
           result |-> IF filtered.threw THEN EmptyObject ELSE filtered.result]
  /\ UNCHANGED << data, dialog, lastCollapse >>
  /\ UNCHANGED schemaVars
  /\ UNCHANGED itemVars

NextPrune == Load \/ Compose \/ Prune

SpecPrune == InitPrune /\ [][NextPrune]_vars

-----------------------------------------------------------------------------
(* A completion item and the callers of its resolve() *)

InitResolve ==
  /\ specs = <<>>
  /\ sessions = {}
  /\ supplied = <<>>
  /\ canonical = None
  /\ original = None
  /\ _defaults = EmptyObject
  /\ _validationErrors = <<>>
  /\ validationAttempt = 0
  /\ compositions = 0
  /\ reloading = 0
  /\ firstSeen = None
  /\ lastFetch = NoFetch
  /\ lastPopulate = NoPopulate
  /\ epoch = [signalled |-> FALSE, fetches |-> 0, populates |-> 0, returned |-> None]
  /\ validatorIds = <<>>
  /\ data = NoData
  /\ dialog = "none"
  /\ lastCollapse = NoCollapse
  /\ lastPrune = NoPrune
  /\ connection \in {"none", "unsupported", "supported"}
  /\ showDocumentation \in BOOLEAN
  /\ _documentation \in {"", "doc"}
  /\ _requested_resolution = FALSE
  /\ _resolved = FALSE
  /\ request = "none"
  /\ requests = 0
  /\ calls = [call \in 1..MaxCalls |-> "idle"]

Resolve ==
  \E call \in DOMAIN calls :
    resolve(call) /\ UNCHANGED schemaVars /\ UNCHANGED dataVars

Respond ==
  \E resolvedCompletionItem \in ResolveAnswers :
    resolveResumes(resolvedCompletionItem)
    /\ UNCHANGED schemaVars /\ UNCHANGED dataVars

Ready ==
  \E call \in DOMAIN calls :
    untilReadyFulfils(call) /\ UNCHANGED schemaVars /\ UNCHANGED dataVars

GiveUp ==
  \E call \in DOMAIN calls :
    untilReadyRejects(call) /\ UNCHANGED schemaVars /\ UNCHANGED dataVars

NextResolve == Resolve \/ Respond \/ Ready \/ GiveUp

SpecResolve == InitResolve /\ [][NextResolve]_vars

-----------------------------------------------------------------------------
(* Properties of the fetch hook, populate and the sessionsChanged handler *)

\* schema.properties.language_servers of a held schema object
LanguageServersOf(held) == held.value.properties.language_servers

\* the catalog's keys whose server populate transforms
Eligible(catalog) ==
  { catalog[i].key : i \in { j \in DOMAIN catalog :
        /\ catalog[j].key # ""
        /\ Has(catalog[j], "config_schema")
        /\ Has(catalog[j].config_schema, "properties") } }

\* populate ran to its end for the schema now cached
Composed == canonical # None /\ lastPopulate.ran /\ ~lastPopulate.threw

\* C1: between two sessionsChanged signals every fetch that returns hands out
\* the same schema object; populate (and with it the validator) runs at most
\* once, and never in a fetch that found the schema cached.
C1_CacheReferenceStable ==
  /\ epoch.populates <= 1
  /\ lastFetch.cached => ~lastFetch.populated /\ ~lastFetch.validated
  /\ lastFetch.validated => lastFetch.populated
  /\ lastFetch.outcome = "returned" =>
        /\ canonical # None
        /\ canonical[1].ref = lastFetch.ref
        /\ epoch.returned = Some(lastFetch.ref)

\* C1 witness: a second fetch of an epoch answered from the cache that an
\* earlier fetch of the epoch composed
C1_Witness ==
  /\ Composed
  /\ epoch.fetches = 2
  /\ lastFetch.cached
  /\ lastFetch.outcome = "returned"

\* C2 (as claimed): a sessionsChanged signal clears `canonical` and nothing
\* else and requests a reload, and the first fetch after it composes and
\* validates again from the catalog as it then is.
C2_SignalThenRecomposeAndRevalidate ==
  [][ /\ reloading' = reloading + 1 =>
            /\ canonical' = None
            /\ UNCHANGED << original, _defaults, _validationErrors,
                            validationAttempt >>
      /\ (epoch.signalled /\ epoch.fetches = 0 /\ epoch'.fetches = 1) =>
            /\ compositions' = compositions + 1
            /\ validationAttempt' = validationAttempt + 1
            /\ DOMAIN _defaults' = Eligible(specs) ]_vars

\* C3: `original` is unset until the first fetch and from then on is the
\* copy of the schema that first fetch was given.
C3_OriginalCapturedOnce ==
  /\ original = None <=> firstSeen = None
  /\ original # None => original[1] = deepCopy(firstSeen[1], 0)

\* C3 witness: after a signal, a later composition from a plugin schema that
\* has `properties` was rejected and rolled back, while the original has none
C3_Witness ==
  /\ Composed
  /\ epoch.signalled
  /\ lastPopulate.rejected
  /\ compositions >= 2
  /\ ~Has(LanguageServersOf(original[1]), "properties")
  /\ \E key \in DOMAIN _defaults : Has(_defaults[key], "priority")

\* C4: after populate, language_servers.properties is absent exactly when
\* the validator reported errors and the original had none, and likewise
\* language_servers.default; a field that is present holds the composed
\* value, and the rest of the schema is the composed schema's.
C4_FieldGranularRollback ==
  Composed =>
    LET now == LanguageServersOf(canonical[1])
        was == LanguageServersOf(original[1])
        composed == lastPopulate.composed.properties.language_servers
    IN /\ ~Has(now, "properties") <=>
             (lastPopulate.rejected /\ ~Has(was, "properties"))
       /\ ~Has(now, "default") <=>
             (lastPopulate.rejected /\ ~Has(was, "default"))
       /\ Has(now, "properties") => now.properties = composed.properties
       /\ Has(now, "default") => now.default = composed.default
       /\ Delete(Delete(now, "properties"), "default")
            = Delete(Delete(composed, "properties"), "default")
       /\ [canonical[1].value EXCEPT !.properties.language_servers = composed]
            = lastPopulate.composed

\* C4 witness: a rejected composition whose original had `default` but no
\* `properties`
C4_Witness ==
  /\ Composed
  /\ lastPopulate.rejected
  /\ ~Has(LanguageServersOf(original[1]), "properties")
  /\ Has(LanguageServersOf(original[1]), "default")
  /\ DOMAIN _defaults # {}

\* C5 (as claimed): the specs of the catalog are never changed by a fetch:
\* they stay as the manager supplied them.
C5_SpecsNotMutated == specs = supplied

\* a server populate transforms has a `$ref` to a definition its fragment lacks
MissingDefinition(catalog) ==
  \E i \in DOMAIN catalog :
    /\ catalog[i].key \in Eligible(catalog)
    /\ \E key \in DOMAIN catalog[i].config_schema.properties :
         LET value == catalog[i].config_schema.properties[key]
         IN /\ Has(value, "$ref")
            /\ startsWith(value["$ref"], "#/definitions/")
            /\ ~Has(catalog[i].config_schema.definitions, substring14(value["$ref"]))

\* C6 (as claimed): a `$ref` to a missing local definition is warned about
\* and left in place, and the fetch still returns a composed schema.
C6_MissingDefinitionNotFatal ==
  (lastPopulate.ran /\ MissingDefinition(specs)) =>
     /\ \E n \in DOMAIN lastPopulate.warnings :
          lastPopulate.warnings[n] = "Definition not found"
     /\ ~lastPopulate.threw
     /\ lastFetch.outcome # "threw"
     /\ canonical # None
     /\ DOMAIN _defaults = Eligible(specs)

\* C7: after populate the composed language_servers.properties, the composed
\* language_servers.default and the stored defaults have the same keys: those
\* of the specs with a non-empty key, a config schema and its properties; an
\* empty catalog gives empty maps.
C7_NoPartialServerEntries ==
  (lastPopulate.ran /\ ~lastPopulate.threw) =>
    LET composed == lastPopulate.composed.properties.language_servers
    IN /\ DOMAIN composed.properties = Eligible(specs)
       /\ DOMAIN composed.default = Eligible(specs)
       /\ _defaults = composed.default
       /\ specs = <<>> =>
            composed.properties = EmptyObject /\ composed.default = EmptyObject

\* C7 witness: a composition over a catalog of which one server is skipped and
\* one is transformed
C7_Witness ==
  /\ lastPopulate.ran /\ ~lastPopulate.threw
  /\ Len(specs) = 2
  /\ Eligible(specs) # {}
  /\ Eligible(specs) # Keys(specs)

\* every reload requested by a signal has been carried out
Settled == epoch.signalled /\ reloading = 0

\* C8 (as claimed): once the last requested reload is done, the cached schema
\* and the defaults are those composed from the catalog as it now is.
C8_ReloadsConverge ==
  Settled =>
    /\ Composed
    /\ DOMAIN _defaults = Eligible(specs)
    /\ _defaults = lastPopulate.composed.properties.language_servers.default

\* C9: a key the defaults held before a completed populate and that the catalog
\* no longer has is in neither the composed properties and default, nor the
\* returned schema, nor the stored defaults.
C9_NoDefaultsLeakage ==
  Composed =>
    \A key \in lastPopulate.before \ Keys(specs) :
      LET composed == lastPopulate.composed.properties.language_servers
          now == LanguageServersOf(canonical[1])
      IN /\ key \notin DOMAIN _defaults
         /\ key \notin DOMAIN composed.properties
         /\ key \notin DOMAIN composed.default
         /\ Has(now, "properties") => key \notin DOMAIN now.properties
         /\ Has(now, "default") => key \notin DOMAIN now.default

\* C9 witness: recomposed after a signal, with one server of the previous
\* epoch gone from the catalog and another still there
C9_Witness ==
  /\ Composed
  /\ epoch.signalled
  /\ lastPopulate.before \ Keys(specs) # {}
  /\ DOMAIN _defaults # {}

\* the errors the renderer of `language_servers` passes to the settings UI:
\* validationErrors: this._validationErrors, read at each rendering
rendererValidationErrors == _validationErrors

\* C13: when the validator rejected the composed schema, the fetch has still
\* returned the cached schema and the errors of that validation are stored,
\* non-empty, where the settings UI reads them.
C13_RejectionNotFatal ==
  (lastPopulate.ran /\ lastPopulate.rejected) =>
     /\ ~lastPopulate.threw
     /\ lastFetch.outcome = "returned"
     /\ canonical # None
     /\ lastFetch.ref = canonical[1].ref
     /\ rendererValidationErrors # <<>>
     /\ Some(rendererValidationErrors) = lastPopulate.errors

\* C13 witness: a rejected composition, rolled back to a schema without
\* language_servers.properties, and a later fetch answered from the cache
C13_Witness ==
  /\ lastPopulate.ran /\ lastPopulate.rejected
  /\ lastFetch.outcome = "returned"
  /\ lastFetch.cached
  /\ ~Has(LanguageServersOf(canonical[1]), "properties")
  /\ _validationErrors # <<>>

\* the composed schema of a server's settings: properties.serverSettings of
\* its entry in the composed language_servers.properties
ServerSettingsOf(serverKey) ==
  lastPopulate.composed.properties.language_servers
    .properties[serverKey].properties.serverSettings

\* C14: after a composition, a property that the supplied config schema gave
\* a `$ref` to one of its own definitions carries every field of that
\* definition and no `$ref`; a property whose `$ref` is not local is as it
\* was supplied.
C14_LocalRefsInlined ==
  Composed =>
    \A i \in DOMAIN supplied :
      supplied[i].key \in Eligible(supplied) =>
        LET configSchema == supplied[i].config_schema
        IN \A key \in DOMAIN configSchema.properties :
             LET value == configSchema.properties[key]
                 now == ServerSettingsOf(supplied[i].key).properties[key]
             IN Has(value, "$ref") =>
                  IF startsWith(value["$ref"], "#/definitions/")
                    THEN Has(configSchema.definitions, substring14(value["$ref"])) =>
                           LET definition ==
                                 configSchema.definitions[substring14(value["$ref"])]
                           IN /\ ~Has(now, "$ref")
                              /\ \A defKey \in DOMAIN definition :
                                    /\ Has(now, defKey)
                                    /\ now[defKey] = definition[defKey]
                    ELSE now = value

\* C14 witness: a composition over a server with a local `$ref` and a server
\* with a `$ref` that is not local
C14_Witness ==
  /\ Composed
  /\ \E i, j \in DOMAIN supplied :
        /\ supplied[i].key \in Eligible(supplied)
        /\ supplied[j].key \in Eligible(supplied)
        /\ \E key \in DOMAIN supplied[i].config_schema.properties :
              LET value == supplied[i].config_schema.properties[key]
              IN /\ Has(value, "$ref")
                 /\ startsWith(value["$ref"], "#/definitions/")
        /\ \E key \in DOMAIN supplied[j].config_schema.properties :
              LET value == supplied[j].config_schema.properties[key]
              IN /\ Has(value, "$ref")
                 /\ ~startsWith(value["$ref"], "#/definitions/")

\* the defaults of the properties of an object of JSON schema properties
DefaultsOf(properties) ==
  [key \in {k \in DOMAIN properties : Has(properties[k], "default")} |->
     properties[key].default]

\* C15: after a composition, every composed server (the same servers with or
\* without a session) has as its defaults entry the defaults of the shared
\* properties with `serverSettings` set to the defaults of exactly the
\* properties of its composed, ref-resolved settings schema that have one;
\* a session decides the description only.
C15_DefaultsEntry ==
  Composed =>
    LET shared == IF lastPopulate.shared = None THEN EmptyObject
                  ELSE DefaultsOf(lastPopulate.shared[1])
    IN /\ DOMAIN _defaults = Eligible(specs)
       /\ \A serverKey \in Eligible(specs) :
            /\ _defaults[serverKey] =
                  [serverSettings |-> DefaultsOf(ServerSettingsOf(serverKey).properties)]
                  @@ shared
            /\ ServerSettingsOf(serverKey).description.msgid =
                  (IF serverKey \in sessions
                     THEN "Settings to be passed"
                     ELSE "Settings that would be passed (not detected)")

\* C15 witness: the composition after a signal, of a server without a session
\* whose schema has a default behind a `$ref`, with shared defaults
C15_Witness ==
  /\ Composed
  /\ epoch.signalled
  /\ "pyls" \in Eligible(specs)
  /\ "pyls" \notin sessions
  /\ Has(_defaults["pyls"], "priority")
  /\ Has(_defaults["pyls"].serverSettings, "formatter")

\* C16: the numbers given to the validator are 1, 2, 3, ... in call order:
\* one more at each validation, so never twice the same and always increasing.
C16_FreshValidationIds ==
  /\ Len(validatorIds) = validationAttempt
  /\ \A i \in DOMAIN validatorIds : validatorIds[i] = i
  /\ \A i, j \in DOMAIN validatorIds : i < j => validatorIds[i] < validatorIds[j]

\* C16 witness: two validations, in two epochs
C16_Witness ==
  /\ Len(validatorIds) >= 2
  /\ epoch.signalled
  /\ lastPopulate.ran

\* C20: the stored errors change only to the errors of a validation that has
\* just failed, and once non-empty never become empty; a composition that
\* passes validation leaves them as they were and caches the fully composed
\* schema.
C20_ErrorsNeverCleared ==
  [][ /\ _validationErrors' # _validationErrors =>
            /\ lastPopulate'.rejected
            /\ lastPopulate'.errors = Some(_validationErrors')
      /\ _validationErrors # <<>> => _validationErrors' # <<>>
      /\ (compositions' # compositions /\ ~lastPopulate'.threw
            /\ ~lastPopulate'.rejected) =>
            /\ _validationErrors' = _validationErrors
            /\ canonical'[1].value = lastPopulate'.composed ]_vars

\* C20 witness: errors of an earlier epoch are still stored after a later
\* epoch's composition passed validation and cached the composed schema
C20_Witness ==
  /\ Composed
  /\ epoch.signalled
  /\ ~lastPopulate.rejected
  /\ _validationErrors # <<>>
  /\ canonical[1].value = lastPopulate.composed
  /\ DOMAIN _defaults # {}

-----------------------------------------------------------------------------
(* Properties of the compose hook *)

\* C10 (as claimed): a collapse shows the conflict dialog exactly when some
\* server's collapse gave conflicts.
C10_DialogOnlyOnConflicts ==
  (lastCollapse.ran /\ ~lastCollapse.threw) =>
     (lastCollapse.shown <=>
        \E serverKey \in DOMAIN lastCollapse.conflicts :
           lastCollapse.conflicts[serverKey] # EmptyObject)

\* C11: the compose hook has returned the plugin with its data set while the
\* conflict dialog is still open, and a dialog that failed to display is
\* logged: the rejection goes no further and user and composite keep the
\* collapsed result.
C11_ConflictsNeverBlock ==
  /\ dialog \in {"none", "open", "logged"}
  /\ dialog \in {"open", "logged"} =>
        /\ lastCollapse.ran /\ ~lastCollapse.threw /\ lastCollapse.shown
        /\ data.composite # None
        /\ data.user.language_servers = lastCollapse.result
        /\ data.composite[1].language_servers = lastCollapse.result

\* C11 witness: the dialog of a collapse with a conflict failed to display
C11_Witness ==
  /\ dialog = "logged"
  /\ data.composite # None
  /\ \E serverKey \in DOMAIN lastCollapse.conflicts :
        lastCollapse.conflicts[serverKey] # EmptyObject

\* the server entries a collapse rewrites: those with a serverSettings object
Collapsible(settings) ==
  { serverKey \in DOMAIN settings :
      /\ settings[serverKey] # Null
      /\ Has(settings[serverKey], "serverSettings")
      /\ settings[serverKey].serverSettings # Null }

\* C12: after a compose hook that had language_servers to collapse,
\* user.language_servers is the collapsed form of what it was (each server
\* with a serverSettings object has it replaced by its nested form, without
\* dotted keys; every other entry and field is as it was),
\* composite.language_servers is that same value and every other field of
\* composite is the user's.
C12_ComposePostcondition ==
  (lastCollapse.ran /\ ~lastCollapse.threw) =>
    LET before == lastCollapse.settings
        after == data.user.language_servers
    IN /\ data.composite # None
       /\ DOMAIN after = DOMAIN before
       /\ \A serverKey \in DOMAIN before :
            IF serverKey \in Collapsible(before)
              THEN /\ after[serverKey] =
                        [before[serverKey] EXCEPT
                           !.serverSettings = collapseToDotted(@).result]
                   /\ ~Has(after[serverKey].serverSettings, "a.b")
              ELSE after[serverKey] = before[serverKey]
       /\ data.composite[1].language_servers = after
       /\ DOMAIN data.composite[1] = DOMAIN data.user
       /\ \A field \in DOMAIN data.user \ {"language_servers"} :
            data.composite[1][field] = data.user[field]

\* C12 witness: a compose over a null entry and an entry with a shared field
\* and serverSettings, beside another field of the user's data
C12_Witness ==
  /\ lastCollapse.ran /\ ~lastCollapse.threw
  /\ Has(data.user, "logAllCommunication")
  /\ \E serverKey \in DOMAIN lastCollapse.settings :
        lastCollapse.settings[serverKey] = Null
  /\ \E serverKey \in Collapsible(lastCollapse.settings) :
        Has(lastCollapse.settings[serverKey], "priority")

\* a settings group without the keys that equal their default: the top-level
\* keys, and the keys of serverSettings against the defaults' serverSettings
WithoutDefaults(group, serverDefaults) ==
  LET kept == { settingKey \in DOMAIN group \ {"serverSettings"} :
                  ~(/\ Has(serverDefaults, settingKey)
                    /\ group[settingKey] = serverDefaults[settingKey]) }
      keptSub == { subKey \in DOMAIN group.serverSettings :
                     ~(/\ Has(serverDefaults.serverSettings, subKey)
                       /\ group.serverSettings[subKey]
                            = serverDefaults.serverSettings[subKey]) }
  IN [settingKey \in kept |-> group[settingKey]]
     @@ (IF Has(group, "serverSettings")
           THEN [serverSettings |->
                   [subKey \in keptSub |-> group.serverSettings[subKey]]]
           ELSE EmptyObject)

\* C17 (as claimed): _filterOutDefaults gives, for every server group with an
\* entry in the defaults table, the group without the top-level keys and the
\* serverSettings sub-keys that equal their default, and every other group
\* unchanged; and the compose hook, which does not call it, keeps every
\* override that equals its default.
C17_PruneSemantics ==
  /\ (lastPrune.ran /\ ~lastPrune.threw) =>
        /\ DOMAIN lastPrune.result = DOMAIN lastPrune.settings
        /\ \A serverKey \in DOMAIN lastPrune.settings :
              LET group == lastPrune.settings[serverKey]
              IN lastPrune.result[serverKey] =
                   (IF Has(lastPrune.defaults, serverKey) /\ group # Null
                      THEN WithoutDefaults(group, lastPrune.defaults[serverKey])
                      ELSE group)
  /\ (lastCollapse.ran /\ ~lastCollapse.threw) =>
        \A serverKey \in DOMAIN lastCollapse.settings :
          LET group == lastCollapse.settings[serverKey]
              after == data.user.language_servers[serverKey]
          IN group # Null =>
               /\ DOMAIN after = DOMAIN group
               /\ \A settingKey \in DOMAIN group \ {"serverSettings"} :
                     after[settingKey] = group[settingKey]
               /\ (Has(group, "serverSettings") /\ group.serverSettings # Null) =>
                     \A subKey \in DOMAIN group.serverSettings \ {"a.b", "a"} :
                       /\ Has(after.serverSettings, subKey)
                       /\ after.serverSettings[subKey] = group.serverSettings[subKey]

-----------------------------------------------------------------------------
(* Properties of CompletionItem.resolve *)

\* C18: an item sends at most one completionItem/resolve request: a request
\* is sent only by a call that finds the item neither requested nor resolved
\* on a connection with resolve support; a call made while the request is
\* outstanding only waits, and a call on a resolved item or without resolve
\* support sends nothing.
C18_AtMostOneRequest ==
  [][ /\ requests' <= 1
      /\ requests' # requests =>
            /\ requests' = requests + 1
            /\ ~_requested_resolution /\ ~_resolved
            /\ connection = "supported"
      /\ \A call \in DOMAIN calls :
            (calls[call] \in {"idle", "returned", "rejected"}
               /\ calls'[call] # calls[call]) =>
              /\ request = "outstanding" =>
                    calls'[call] = "waiting" /\ requests' = requests
              /\ (_resolved \/ connection # "supported") =>
                    calls'[call] # "awaiting" /\ calls'[call] # "waiting"
                    /\ requests' = requests ]_vars

\* C18 witness: two calls wait while the request of a third is outstanding
C18_Witness ==
  /\ requests = 1
  /\ request = "outstanding"
  /\ \E a, b, c \in DOMAIN calls :
        /\ a # b
        /\ calls[a] = "waiting" /\ calls[b] = "waiting" /\ calls[c] = "awaiting"

\* C19: once the request was answered with null or failed, the item stays
\* requested and unresolved, isResolved() and needsResolution() are false, no
\* request is sent again and a call of resolve() can only start to wait, never
\* returning from that wait; always resolved implies requested, and resolved
\* never becomes false again.
C19_StuckUnresolved ==
  /\ [](request \in {"null", "failed"} =>
          /\ _requested_resolution /\ ~_resolved
          /\ ~isResolved /\ ~needsResolution
          /\ requests = 1)
  /\ [](_resolved => _requested_resolution)
  /\ [][ /\ _resolved => _resolved'
         /\ request \in {"null", "failed"} =>
               /\ request' = request /\ requests' = requests
               /\ \A call \in DOMAIN calls :
                     /\ calls'[call] # "awaiting"
                     /\ (calls[call] # "waiting" /\ calls'[call] # calls[call]) =>
                           calls'[call] = "waiting"
                     /\ calls[call] = "waiting" => calls'[call] # "returned" ]_vars

\* C19 witness: after a null answer the first call has returned, a later call
\* has stopped waiting and another is still waiting
C19_Witness ==
  /\ request = "null"
  /\ ~_resolved
  /\ \E a, b, c \in DOMAIN calls :
        calls[a] = "returned" /\ calls[b] = "rejected" /\ calls[c] = "waiting"

====
